---- MODULE Spec2Model ----
(***************************************************************************)
(* Booking documents of the Smart-Campus API (the Booking mongoose model   *)
(* with its two pre('save') hooks) as a state machine.  A request handler  *)
(* builds or loads a document, assigns fields and calls save(); save runs  *)
(* schema validation, then the hooks, then writes to the collection.  The  *)
(* database is touched at three points: the load (findById), the overlap   *)
(* query (findOne, awaited inside the second hook) and the write           *)
(* (insertOne for a new document, updateOne with $set of the modified      *)
(* paths otherwise).  Handlers of different requests interleave at these   *)
(* points.  The static findAvailableSlots reads the collection and the     *)
(* boardroom once and then walks the day in one synchronous loop; `slots`  *)
(* is the call in progress, one pass of the loop per step.  `now` is the    *)
(* clock that new Date() reads.  `maintenance` is the Maintenance          *)
(* collection and `mh` the maintenance controller's handlers, which load   *)
(* a request, check and assign, and save.                                  *)
(***************************************************************************)
EXTENDS Integers, Sequences, FiniteSets, TLC

VARIABLES bookings, pc, req, result, slots, now, maintenance, mh

vars == <<bookings, pc, req, result, slots, now, maintenance, mh>>

---------------------------------------------------------------------------
(* Bounds *)

\* Timestamps are 0..MaxTime.
MaxTime == 2

\* Documents that exist or are being created, at most.
MaxBookings == 2

Times == 0..MaxTime

\* Request handlers; those of different requests interleave at each await.
Procs == {"h1", "h2"}

\* Boardroom and user references (ObjectIds).
Boardrooms == {"roomA", "roomB"}

Users == {"u1"}

\* An unset Date / an unset ObjectId / an unset String.
NoTime == -1

NoRef == "noref"

NoString == "nostring"

---------------------------------------------------------------------------
(* bookingSchema *)

\* enum of bookingSchema.status
StatusEnum == {"pending", "confirmed", "cancelled", "completed"}

\* enum of bookingSchema.recurring.frequency
FrequencyEnum == {"daily", "weekly", "monthly"}

\* The paths of a booking document that the model keeps.
BookingPaths ==
  {"boardroom", "user", "startTime", "endTime", "attendees", "status",
   "cancellationReason", "cancelledBy", "cancellationTime",
   "isRecurring", "frequency", "endDate", "checkInTime", "checkOutTime"}

\* A document as the caller supplies it: every path the caller leaves out is
\* unset (NoTime, NoRef, NoString).
BlankBooking ==
  [boardroom |-> NoRef, user |-> NoRef, startTime |-> NoTime, endTime |-> NoTime,
   attendees |-> 0, status |-> NoString,
   cancellationReason |-> NoString, cancelledBy |-> NoRef, cancellationTime |-> NoTime,
   isRecurring |-> FALSE, frequency |-> NoString, endDate |-> NoTime,
   checkInTime |-> NoTime, checkOutTime |-> NoTime]

\* Schema defaults applied when a document is constructed: status defaults to
\* 'pending' (recurring.isRecurring defaults to false, which BlankBooking has).
ApplyDefaults(f) ==
  [f EXCEPT !.status = IF f.status = NoString THEN "pending" ELSE f.status]

\* Built-in schema validation, run by save() before the pre('save') hooks:
\* required paths, min, enum, and the conditional required of recurring.*.
ValidateSchema(d) ==
  /\ d.boardroom # NoRef
  /\ d.user # NoRef
  /\ d.startTime # NoTime
  /\ d.endTime # NoTime
  /\ d.attendees >= 1
  /\ d.status \in StatusEnum
  /\ d.frequency # NoString => d.frequency \in FrequencyEnum
  /\ d.isRecurring => (d.frequency # NoString /\ d.endDate # NoTime)

---------------------------------------------------------------------------
(* pre('save') hooks *)

\* The calls a hook makes to next(), in order: "ok" for next(), the error
\* name for next(new Error(...)).

\* The first hook with a strict comparison: an empty interval passes.
EndAfterStartHookStrict(d) ==
  IF d.endTime < d.startTime THEN <<"EndBeforeStart", "ok">> ELSE <<"ok">>

\* First hook: next(error) when endTime <= startTime, and then next() always.
EndAfterStartHook(d) ==
  IF d.endTime <= d.startTime THEN <<"EndBeforeStart", "ok">> ELSE <<"ok">>

\* The condition of the second hook left out: every save queries.
NeedsOverlapCheckAlways(isNew, modified) == TRUE

\* isNew || isModified('startTime') || isModified('endTime')
NeedsOverlapCheck(isNew, modified) ==
  isNew \/ "startTime" \in modified \/ "endTime" \in modified

\* Variants of the filter, as a slip in it would read: closed intervals;
\* no status condition; no _id condition.
OverlapQueryClosed(coll, d, id) ==
  {i \in DOMAIN coll :
     /\ coll[i].boardroom = d.boardroom
     /\ i # id
     /\ coll[i].status \in {"pending", "confirmed"}
     /\ coll[i].startTime <= d.endTime
     /\ coll[i].endTime >= d.startTime}

OverlapQueryAnyStatus(coll, d, id) ==
  {i \in DOMAIN coll :
     /\ coll[i].boardroom = d.boardroom
     /\ i # id
     /\ coll[i].startTime < d.endTime
     /\ coll[i].endTime > d.startTime}

OverlapQueryWithSelf(coll, d, id) ==
  {i \in DOMAIN coll :
     /\ coll[i].boardroom = d.boardroom
     /\ coll[i].status \in {"pending", "confirmed"}
     /\ coll[i].startTime < d.endTime
     /\ coll[i].endTime > d.startTime}

\* The filter without its boardroom condition.
OverlapQueryAnyRoom(coll, d, id) ==
  {i \in DOMAIN coll :
     /\ i # id
     /\ coll[i].status \in {"pending", "confirmed"}
     /\ coll[i].startTime < d.endTime
     /\ coll[i].endTime > d.startTime}

\* The findOne filter of the second hook, over the collection `coll`:
\* same boardroom, another _id, status pending or confirmed,
\* startTime < this.endTime and endTime > this.startTime.
OverlapQuery(coll, d, id) ==
  {i \in DOMAIN coll :
     /\ coll[i].boardroom = d.boardroom
     /\ i # id
     /\ coll[i].status \in {"pending", "confirmed"}
     /\ coll[i].startTime < d.endTime
     /\ coll[i].endTime > d.startTime}

\* Second hook: next(error) when the query found a document, then next().
OverlapHook(coll, d, id, isNew, modified) ==
  IF NeedsOverlapCheck(isNew, modified) /\ OverlapQuery(coll, d, id) # {}
  THEN <<"Overlap", "ok">>
  ELSE <<"ok">>

\* A runner in which the last call to next() decides.
HookResultLastCall(calls) == calls[Len(calls)]

\* The middleware runner wraps next so that only its first call counts.
HookResult(calls) == Head(calls)

\* save() up to the write: validation, first hook, second hook.  The first
\* error stops the chain; "ok" means the write is issued.
PreSave(coll, d, id, isNew, modified) ==
  IF ~ValidateSchema(d) THEN "ValidationError"
  ELSE IF HookResult(EndAfterStartHook(d)) # "ok"
       THEN HookResult(EndAfterStartHook(d))
       ELSE HookResult(OverlapHook(coll, d, id, isNew, modified))

\* The paths of the in-memory document that differ from the loaded one.
ModifiedPaths(loaded, d) == {f \in BookingPaths : d[f] # loaded[f]}

\* replaceOne({_id}, modified paths): the stored document is replaced by the
\* modified paths alone instead of having them set.
SetPathsReplace(stored, d, modified) ==
  LET v(f) == IF f \in modified THEN d[f] ELSE BlankBooking[f] IN
  [boardroom |-> v("boardroom"), user |-> v("user"),
   startTime |-> v("startTime"), endTime |-> v("endTime"),
   attendees |-> v("attendees"), status |-> v("status"),
   cancellationReason |-> v("cancellationReason"),
   cancelledBy |-> v("cancelledBy"), cancellationTime |-> v("cancellationTime"),
   isRecurring |-> v("isRecurring"), frequency |-> v("frequency"),
   endDate |-> v("endDate"),
   checkInTime |-> v("checkInTime"), checkOutTime |-> v("checkOutTime")]

\* updateOne({_id}, {$set: modified paths}) applied to the stored document.
SetPaths(stored, d, modified) ==
  LET v(f) == IF f \in modified THEN d[f] ELSE stored[f] IN
  [boardroom |-> v("boardroom"), user |-> v("user"),
   startTime |-> v("startTime"), endTime |-> v("endTime"),
   attendees |-> v("attendees"), status |-> v("status"),
   cancellationReason |-> v("cancellationReason"),
   cancelledBy |-> v("cancelledBy"), cancellationTime |-> v("cancellationTime"),
   isRecurring |-> v("isRecurring"), frequency |-> v("frequency"),
   endDate |-> v("endDate"),
   checkInTime |-> v("checkInTime"), checkOutTime |-> v("checkOutTime")]

\* insertOne(document)
Insert(coll, id, d) ==
  [i \in DOMAIN coll \cup {id} |-> IF i = id THEN d ELSE coll[i]]

---------------------------------------------------------------------------
(* Request handlers *)

NoReq == [id |-> 0, isNew |-> FALSE, doc |-> BlankBooking, modified |-> {}]

NoResult == [op |-> "none", id |-> 0, outcome |-> "none"]

\* _ids held by documents that are constructed but not inserted yet.
PendingIds == {req[q].id : q \in {r \in Procs : pc[r] = "write" /\ req[r].isNew}}

UsedIds == DOMAIN bookings \cup PendingIds

\* new ObjectId(): an _id no other document has.
FreshId ==
  LET free == (1..(Cardinality(UsedIds) + 1)) \ UsedIds
  IN CHOOSE i \in free : \A j \in free : i <= j

\* The handler returns: the error is reported, or the write has been done.
Finish(p, op, id, outcome) ==
  /\ pc' = [pc EXCEPT ![p] = "idle"]
  /\ req' = [req EXCEPT ![p] = NoReq]
  /\ result' = [result EXCEPT ![p] = [op |-> op, id |-> id, outcome |-> outcome]]

\* new Booking(f).save(), up to the overlap query's answer.
Create(p, f) ==
  /\ pc[p] = "idle"
  /\ LET d == ApplyDefaults(f)
         id == FreshId
         outcome == PreSave(bookings, d, id, TRUE, {})
     IN IF outcome = "ok"
        THEN /\ pc' = [pc EXCEPT ![p] = "write"]
             /\ req' = [req EXCEPT ![p] =
                          [id |-> id, isNew |-> TRUE, doc |-> d, modified |-> {}]]
             /\ result' = [result EXCEPT ![p] = NoResult]
        ELSE Finish(p, "create", id, outcome)
  /\ UNCHANGED <<bookings, slots, now, maintenance, mh>>

\* Booking.findById(id)
Load(p, id) ==
  /\ pc[p] = "idle"
  /\ id \in DOMAIN bookings
  /\ pc' = [pc EXCEPT ![p] = "loaded"]
  /\ req' = [req EXCEPT ![p] =
               [id |-> id, isNew |-> FALSE, doc |-> bookings[id], modified |-> {}]]
  /\ result' = [result EXCEPT ![p] = NoResult]
  /\ UNCHANGED <<bookings, slots, now, maintenance, mh>>

\* Assign paths of the loaded document so that it reads d, then save(), up to
\* the overlap query's answer.  What stays in flight is the update save() will
\* send: the modified paths and their values.
Save(p, d) ==
  /\ pc[p] = "loaded"
  /\ LET id == req[p].id
         modified == ModifiedPaths(req[p].doc, d)
         outcome == PreSave(bookings, d, id, FALSE, modified)
     IN IF outcome = "ok"
        THEN /\ pc' = [pc EXCEPT ![p] = "write"]
             /\ req' = [req EXCEPT ![p] =
                          [id |-> id, isNew |-> FALSE,
                           doc |-> SetPaths(BlankBooking, d, modified),
                           modified |-> modified]]
             /\ UNCHANGED result
        ELSE Finish(p, "update", id, outcome)
  /\ UNCHANGED <<bookings, slots, now, maintenance, mh>>

\* The write that save() issues once every hook has passed.
Write(p) ==
  /\ pc[p] = "write"
  /\ LET id == req[p].id IN
       /\ bookings' =
            IF req[p].isNew
            THEN Insert(bookings, id, req[p].doc)
            ELSE [bookings EXCEPT ![id] = SetPaths(@, req[p].doc, req[p].modified)]
       /\ Finish(p, IF req[p].isNew THEN "create" ELSE "update", id, "ok")
  /\ UNCHANGED <<slots, now, maintenance, mh>>

---------------------------------------------------------------------------
(* Boardroom documents *)

Weekdays ==
  {"monday", "tuesday", "wednesday", "thursday", "friday", "saturday", "sunday"}

\* operatingHours.<day>.open and .close are strings "HH:MM"; the model writes
\* the string "HH:MM" as the number HHMM and an unset string as NoTime.
UnsetHours == [open |-> NoTime, close |-> NoTime]

ClosedAllWeek == [d \in Weekdays |-> UnsetHours]

\* The boardroom collection; no code of the repository writes to it.
\* roomA: Monday 09:00-11:00, Tuesday 00:00-02:00, Thursday with open only.
\* roomB: Monday 09:00-17:00, Tuesday with close before open.
\* roomC: switched off (isActive false).
BoardroomCatalog ==
  [r \in Boardrooms \cup {"roomC"} |->
     CASE r = "roomA" ->
            [isActive |-> TRUE,
             operatingHours |->
               [ClosedAllWeek EXCEPT !["monday"] = [open |-> 900, close |-> 1100],
                                     !["tuesday"] = [open |-> 0, close |-> 200],
                                     !["thursday"] = [open |-> 900, close |-> NoTime]]]
       [] r = "roomB" ->
            [isActive |-> TRUE,
             operatingHours |->
               [ClosedAllWeek EXCEPT !["monday"] = [open |-> 900, close |-> 1700],
                                     !["tuesday"] = [open |-> 1700, close |-> 900]]]
       [] OTHER ->
            [isActive |-> FALSE,
             operatingHours |->
               [ClosedAllWeek EXCEPT !["monday"] = [open |-> 900, close |-> 1100]]]]

\* A reference no boardroom document has.
UnknownBoardroom == "roomX"

---------------------------------------------------------------------------
(* bookingSchema.statics.findAvailableSlots *)

\* Passes of the loop that a call is followed for, at most.
MaxIterations == 9

\* Milliseconds in a minute (duration * 60000), an hour and a day.
MinuteMs == 60000

HourMs == 60 * MinuteMs

DayMs == 24 * HourMs

\* d = new Date(instant); d.setHours(h, m, s, ms): the same calendar day at
\* the given time of day (timestamps are milliseconds of local time from a
\* midnight).
SetHours(instant, h, m, s, ms) ==
  (instant - (instant % DayMs)) + h * HourMs + m * MinuteMs + s * 1000 + ms

\* The `date` argument is a string such as "Monday, January 1, 2024": the
\* model keeps the instant new Date(date) parses it to and the text before
\* its first comma.
StartOfDay(date) == SetHours(date.instant, 0, 0, 0, 0)

EndOfDay(date) == SetHours(date.instant, 23, 59, 59, 999)

\* find({boardroom, status: {$in: ['pending', 'confirmed']},
\*       startTime: {$gte: startOfDay}, endTime: {$lte: endOfDay}})
DayQuery(coll, room, date) ==
  {i \in DOMAIN coll :
     /\ coll[i].boardroom = room
     /\ coll[i].status \in {"pending", "confirmed"}
     /\ coll[i].startTime >= StartOfDay(date)
     /\ coll[i].endTime <= EndOfDay(date)}

\* .sort({startTime: 1}): the documents found, by ascending startTime.
SortByStartTime(coll, ids) ==
  LET order == CHOOSE o \in [1..Cardinality(ids) -> ids] :
                 /\ \A j, k \in DOMAIN o : j # k => o[j] # o[k]
                 /\ \A j, k \in DOMAIN o :
                      j < k => coll[o[j]].startTime <= coll[o[k]].startTime
  IN [k \in 1..Cardinality(ids) |-> coll[order[k]]]

\* String.prototype.toLocaleLowerCase on the texts a date starts with.
ToLowerCase(text) ==
  CASE text = "Monday" -> "monday"
    [] text = "Tuesday" -> "tuesday"
    [] text = "Wednesday" -> "wednesday"
    [] text = "Thursday" -> "thursday"
    [] OTHER -> text

\* The weekday key taken to be monday whatever the date.
DayOfWeekMonday(date) == "monday"

\* date.toLocaleLowerCase().split(',')[0]
DayOfWeek(date) == ToLowerCase(date.head)

\* !operatingHours || !operatingHours.open || !operatingHours.close, negated;
\* operatingHours is undefined when the key is no path of the schema.
Operational(boardroom, day) ==
  /\ day \in DOMAIN boardroom.operatingHours
  /\ boardroom.operatingHours[day].open # NoTime
  /\ boardroom.operatingHours[day].close # NoTime

\* "HH:MM".split(':') and parseInt of both pieces, then
\* new Date(date).setHours(hour, minute, 0, 0).
TimeOfDay(date, hhmm) == SetHours(date.instant, hhmm \div 100, hhmm % 100, 0, 0)

\* The test of the loop with the third clause left out.
SlotTakenTwoClauses(b, currentTime, slotEnd) ==
  \/ currentTime >= b.startTime /\ currentTime < b.endTime
  \/ slotEnd > b.startTime /\ slotEnd <= b.endTime

\* The test bookings.some() applies to a fetched booking.
SlotTaken(b, currentTime, slotEnd) ==
  \/ currentTime >= b.startTime /\ currentTime < b.endTime
  \/ slotEnd > b.startTime /\ slotEnd <= b.endTime
  \/ currentTime <= b.startTime /\ slotEnd >= b.endTime

\* The break with >= for >.
PastCloseInclusive(slotEnd, closeTime) == slotEnd >= closeTime

\* if (slotEnd > closeTime) break
PastClose(slotEnd, closeTime) == slotEnd > closeTime

NoDate == [instant |-> NoTime, head |-> NoString]

\* No call of findAvailableSlots is in progress.
NoCall ==
  [pc |-> "idle", room |-> NoRef, date |-> NoDate, duration |-> 0,
   fetched |-> <<>>, currentTime |-> NoTime, closeTime |-> NoTime,
   passes |-> 0, availableSlots |-> <<>>, error |-> NoString]

\* throw new Error(...)
Throw(room, date, duration, fetched, error) ==
  [NoCall EXCEPT !.pc = "failed", !.room = room, !.date = date,
                 !.duration = duration, !.fetched = fetched, !.error = error]

\* findAvailableSlots(room, date, duration) up to the loop: the day's
\* bookings are fetched, the boardroom is looked up, its hours are read.
FindAvailableSlots(room, date, duration) ==
  /\ slots.pc = "idle"
  /\ LET fetched == SortByStartTime(bookings, DayQuery(bookings, room, date))
         day == DayOfWeek(date)
     IN slots' =
          IF room \notin DOMAIN BoardroomCatalog
          THEN Throw(room, date, duration, fetched, "BoardroomNotFound")
          ELSE IF ~Operational(BoardroomCatalog[room], day)
          THEN Throw(room, date, duration, fetched, "NotOperational")
          ELSE LET hours == BoardroomCatalog[room].operatingHours[day] IN
               [NoCall EXCEPT !.pc = "loop", !.room = room, !.date = date,
                              !.duration = duration, !.fetched = fetched,
                              !.currentTime = TimeOfDay(date, hours.open),
                              !.closeTime = TimeOfDay(date, hours.close)]
  /\ UNCHANGED <<bookings, pc, req, result, now, maintenance, mh>>

\* One evaluation of the loop condition and, when it holds, of the body.
SlotLoop ==
  /\ slots.pc = "loop"
  /\ slots.passes < MaxIterations
  /\ LET currentTime == slots.currentTime
         slotEnd == currentTime + slots.duration * MinuteMs
         isSlotAvailable ==
           ~\E k \in DOMAIN slots.fetched :
              SlotTaken(slots.fetched[k], currentTime, slotEnd)
     IN slots' =
          IF ~(currentTime < slots.closeTime) \/ PastClose(slotEnd, slots.closeTime)
          THEN [slots EXCEPT !.pc = "done"]
          ELSE [slots EXCEPT
                  !.availableSlots =
                     IF isSlotAvailable
                     THEN Append(@, [startTime |-> currentTime, endTime |-> slotEnd])
                     ELSE @,
                  !.currentTime = slotEnd,
                  !.passes = @ + 1]
  /\ UNCHANGED <<bookings, pc, req, result, now, maintenance, mh>>

\* The caller receives availableSlots, or the error thrown.
SlotsReturn ==
  /\ slots.pc \in {"done", "failed"}
  /\ slots' = NoCall
  /\ UNCHANGED <<bookings, pc, req, result, now, maintenance, mh>>

---------------------------------------------------------------------------
(* The clock, and the booking methods that read it *)

\* Time passes.
Tick ==
  /\ now < MaxTime
  /\ now' = now + 1
  /\ UNCHANGED <<bookings, pc, req, result, slots, maintenance, mh>>

\* isActive with the end edge left out.
IsActiveEndExclusive(d, t) ==
  d.status = "confirmed" /\ d.startTime <= t /\ d.endTime > t

\* bookingSchema.methods.isActive, at the instant t that new Date() gives.
IsActive(d, t) ==
  d.status = "confirmed" /\ d.startTime <= t /\ d.endTime >= t

\* isUpcoming with the start edge let in.
IsUpcomingInclusive(d, t) == d.status = "confirmed" /\ d.startTime >= t

\* bookingSchema.methods.isUpcoming
IsUpcoming(d, t) == d.status = "confirmed" /\ d.startTime > t

\* A boolean as a handler reports it.
Answer(b) == IF b THEN "true" ELSE "false"

\* booking.isActive() on the loaded booking
CallIsActive(p) ==
  /\ pc[p] = "loaded"
  /\ Finish(p, "isActive", req[p].id, Answer(IsActive(req[p].doc, now)))
  /\ UNCHANGED <<bookings, slots, now, maintenance, mh>>

\* booking.isUpcoming() on the loaded booking
CallIsUpcoming(p) ==
  /\ pc[p] = "loaded"
  /\ Finish(p, "isUpcoming", req[p].id, Answer(IsUpcoming(req[p].doc, now)))
  /\ UNCHANGED <<bookings, slots, now, maintenance, mh>>

---------------------------------------------------------------------------
(* maintenanceSchema and its pre('save') hook *)

\* Maintenance requests that exist, at most.
MaxRequests == 1

\* Notes on a request, at most.
MaxNotes == 1

\* enum of maintenanceSchema.type
TypeEnum ==
  {"repair", "cleaning", "equipment", "furniture", "electrical", "plumbing", "other"}

\* enum of maintenanceSchema.status
MaintenanceStatusEnum == {"pending", "assigned", "in_progress", "completed", "cancelled"}

\* An unset Number.
NoNumber == NoTime

\* The paths of a maintenance request that the model keeps; boardroom,
\* reportedBy, priority, description, parts, images and the follow-up paths
\* are read by no handler's condition and are left out.
MaintenancePaths ==
  {"type", "status", "assignedTo", "assignedAt", "startedAt", "completedAt",
   "estimatedCompletion", "actualCompletion", "resolution", "costAmount",
   "costApprovedAt", "notes", "isActive"}

\* A request with every path unset but the defaults: status 'pending',
\* isActive true, no notes.
BlankMaintenance ==
  [type |-> NoString, status |-> "pending", assignedTo |-> NoRef,
   assignedAt |-> NoTime, startedAt |-> NoTime, completedAt |-> NoTime,
   estimatedCompletion |-> NoTime, actualCompletion |-> NoTime,
   resolution |-> NoString, costAmount |-> NoNumber, costApprovedAt |-> NoTime,
   notes |-> <<>>, isActive |-> TRUE]

\* Schema validation: required type, the enums, cost.amount >= 0, and the
\* required content of each note.
ValidateMaintenance(d) ==
  /\ d.type \in TypeEnum
  /\ d.status \in MaintenanceStatusEnum
  /\ d.costAmount = NoNumber \/ d.costAmount >= 0
  /\ \A k \in DOMAIN d.notes : d.notes[k] # NoString

\* isModified: the paths that differ from the loaded document.
MaintenanceModified(loaded, d) == {f \in MaintenancePaths : d[f] # loaded[f]}

\* maintenanceSchema.pre('save'): a modified status stamps assignedAt,
\* startedAt or completedAt and actualCompletion with now; an
\* estimatedCompletion later than actualCompletion is pulled back to it.
MaintenanceHook(d, statusModified, t) ==
  LET stamped ==
        IF ~statusModified THEN d
        ELSE CASE d.status = "assigned" -> [d EXCEPT !.assignedAt = t]
               [] d.status = "in_progress" -> [d EXCEPT !.startedAt = t]
               [] d.status = "completed" ->
                    [d EXCEPT !.completedAt = t, !.actualCompletion = t]
               [] OTHER -> d
  IN IF /\ stamped.actualCompletion # NoTime
        /\ stamped.estimatedCompletion # NoTime
        /\ stamped.actualCompletion < stamped.estimatedCompletion
     THEN [stamped EXCEPT !.estimatedCompletion = stamped.actualCompletion]
     ELSE stamped

\* updateOne({_id}, {$set: modified paths}) applied to the stored request.
MaintenanceSetPaths(stored, d, modified) ==
  LET v(f) == IF f \in modified THEN d[f] ELSE stored[f] IN
  [type |-> v("type"), status |-> v("status"), assignedTo |-> v("assignedTo"),
   assignedAt |-> v("assignedAt"), startedAt |-> v("startedAt"),
   completedAt |-> v("completedAt"),
   estimatedCompletion |-> v("estimatedCompletion"),
   actualCompletion |-> v("actualCompletion"), resolution |-> v("resolution"),
   costAmount |-> v("costAmount"), costApprovedAt |-> v("costApprovedAt"),
   notes |-> v("notes"), isActive |-> v("isActive")]

---------------------------------------------------------------------------
(* maintenanceController *)

\* A handler that holds no request; response is the HTTP status it sent last.
NoHandler ==
  [pc |-> "idle", op |-> "none", id |-> 0, doc |-> BlankMaintenance,
   loaded |-> BlankMaintenance, response |-> 0]

\* res.status(code).json(...)
Respond(p, op, id, code) ==
  mh' = [mh EXCEPT ![p] = [NoHandler EXCEPT !.op = op, !.id = id, !.response = code]]

\* The handler has loaded `loaded`, assigned paths so that the document reads
\* d, and awaits save().
AwaitSave(p, op, id, loaded, d) ==
  mh' = [mh EXCEPT ![p] = [pc |-> "save", op |-> op, id |-> id, doc |-> d,
                           loaded |-> loaded, response |-> 0]]

\* exports.createMaintenance: the route's validation, then
\* new Maintenance({...req.body}).save().
CreateMaintenance(p, body) ==
  /\ mh[p].pc = "idle"
  /\ IF body.type \notin TypeEnum
     THEN Respond(p, "create", 0, 400) /\ UNCHANGED maintenance
     ELSE LET id == Cardinality(DOMAIN maintenance) + 1
              d == [BlankMaintenance EXCEPT
                      !.type = body.type,
                      !.estimatedCompletion = body.estimatedCompletion]
          IN /\ maintenance' =
                  [i \in DOMAIN maintenance \cup {id} |->
                     IF i = id THEN MaintenanceHook(d, FALSE, now)
                               ELSE maintenance[i]]
             /\ Respond(p, "create", id, 201)
  /\ UNCHANGED <<bookings, pc, req, result, slots, now>>

\* exports.updateMaintenance: the route's validation, then
\* findByIdAndUpdate(id, {$set: req.body}, {runValidators: true}); no save
\* hook runs.
UpdateMaintenance(p, id, body) ==
  /\ mh[p].pc = "idle"
  /\ IF body.type \notin TypeEnum
     THEN Respond(p, "update", id, 400) /\ UNCHANGED maintenance
     ELSE IF body.status # NoString /\ body.status \notin MaintenanceStatusEnum
     THEN Respond(p, "update", id, 500) /\ UNCHANGED maintenance
     ELSE IF id \notin DOMAIN maintenance
     THEN Respond(p, "update", id, 404) /\ UNCHANGED maintenance
     ELSE /\ maintenance' =
               [maintenance EXCEPT ![id] =
                  [@ EXCEPT
                     !.type = body.type,
                     !.status = IF body.status # NoString THEN body.status ELSE @,
                     !.estimatedCompletion =
                        IF body.estimatedCompletion # NoTime
                        THEN body.estimatedCompletion ELSE @]]
          /\ Respond(p, "update", id, 200)
  /\ UNCHANGED <<bookings, pc, req, result, slots, now>>

\* exports.deleteMaintenance up to the awaited save().
DeleteMaintenance(p, id) ==
  /\ mh[p].pc = "idle"
  /\ IF id \notin DOMAIN maintenance
     THEN Respond(p, "delete", id, 404)
     ELSE IF maintenance[id].status \notin {"pending", "cancelled"}
     THEN Respond(p, "delete", id, 400)
     ELSE AwaitSave(p, "delete", id, maintenance[id],
                    [maintenance[id] EXCEPT !.isActive = FALSE])
  /\ UNCHANGED <<bookings, pc, req, result, slots, now, maintenance>>

\* exports.assignMaintenance up to the awaited save().
AssignMaintenance(p, id, body) ==
  /\ mh[p].pc = "idle"
  /\ IF id \notin DOMAIN maintenance
     THEN Respond(p, "assign", id, 404)
     ELSE IF maintenance[id].status # "pending"
     THEN Respond(p, "assign", id, 400)
     ELSE AwaitSave(p, "assign", id, maintenance[id],
                    [maintenance[id] EXCEPT
                       !.assignedTo = body.assignedTo,
                       !.estimatedCompletion = body.estimatedCompletion,
                       !.status = "assigned"])
  /\ UNCHANGED <<bookings, pc, req, result, slots, now, maintenance>>

\* validTransitions of updateStatus
ValidTransitions(status) ==
  CASE status = "pending" -> {"assigned", "cancelled"}
    [] status = "assigned" -> {"in_progress", "cancelled"}
    [] status = "in_progress" -> {"completed", "cancelled"}
    [] OTHER -> {}

\* exports.updateStatus up to the awaited save().
UpdateStatus(p, id, body) ==
  /\ mh[p].pc = "idle"
  /\ IF id \notin DOMAIN maintenance
     THEN Respond(p, "status", id, 404)
     ELSE IF body.status \notin ValidTransitions(maintenance[id].status)
     THEN Respond(p, "status", id, 400)
     ELSE AwaitSave(p, "status", id, maintenance[id],
                    [maintenance[id] EXCEPT
                       !.status = body.status,
                       !.resolution =
                          IF body.resolution # NoString THEN body.resolution ELSE @])
  /\ UNCHANGED <<bookings, pc, req, result, slots, now, maintenance>>

\* exports.addNote up to the awaited save().
AddNote(p, id, body) ==
  /\ mh[p].pc = "idle"
  /\ IF id \notin DOMAIN maintenance
     THEN Respond(p, "note", id, 404)
     ELSE AwaitSave(p, "note", id, maintenance[id],
                    [maintenance[id] EXCEPT !.notes = Append(@, body.content)])
  /\ UNCHANGED <<bookings, pc, req, result, slots, now, maintenance>>

\* exports.updateCost up to the awaited save().
UpdateCost(p, id, body) ==
  /\ mh[p].pc = "idle"
  /\ IF id \notin DOMAIN maintenance
     THEN Respond(p, "cost", id, 404)
     ELSE IF maintenance[id].status # "in_progress"
     THEN Respond(p, "cost", id, 400)
     ELSE AwaitSave(p, "cost", id, maintenance[id],
                    [maintenance[id] EXCEPT !.costAmount = body.amount,
                                            !.costApprovedAt = now])
  /\ UNCHANGED <<bookings, pc, req, result, slots, now, maintenance>>

\* maintenance.save() of a loaded request: validation, the hook, then the
\* update of the modified paths, and the handler's response.
SaveMaintenance(p) ==
  /\ mh[p].pc = "save"
  /\ LET h == mh[p] IN
     IF ~ValidateMaintenance(h.doc)
     THEN Respond(p, h.op, h.id, 500) /\ UNCHANGED maintenance
     ELSE LET d == MaintenanceHook(h.doc, h.doc.status # h.loaded.status, now) IN
          /\ maintenance' =
               [maintenance EXCEPT ![h.id] =
                  MaintenanceSetPaths(@, d, MaintenanceModified(h.loaded, d))]
          /\ Respond(p, h.op, h.id, 200)
  /\ UNCHANGED <<bookings, pc, req, result, slots, now>>

---------------------------------------------------------------------------
(* What callers send *)

\* Request bodies of a create on the boardrooms `rooms`: any two timestamps,
\* any status or none, a valid or an invalid attendee count.
CreateInputs(rooms) ==
  {[BlankBooking EXCEPT !.boardroom = b, !.user = u, !.startTime = s,
                        !.endTime = e, !.attendees = a, !.status = st] :
     b \in rooms, u \in Users, s \in Times, e \in Times,
     a \in {0, 1}, st \in StatusEnum \cup {NoString}}

\* Those of them that pass schema validation and span a real interval.
WellFormedCreateInputs(rooms) ==
  {[BlankBooking EXCEPT !.boardroom = b, !.user = u, !.startTime = s,
                        !.endTime = e, !.attendees = 1, !.status = st] :
     b \in rooms, u \in Users, s \in Times, e \in Times \ {0},
     st \in StatusEnum \cup {NoString}}

\* Assignments of an update: startTime, endTime and status.
Assignments(d) ==
  {[d EXCEPT !.startTime = s, !.endTime = e, !.status = st] :
     s \in Times, e \in Times, st \in StatusEnum}

Init ==
  /\ bookings = [i \in {} |-> BlankBooking]
  /\ pc = [p \in Procs |-> "idle"]
  /\ req = [p \in Procs |-> NoReq]
  /\ result = [p \in Procs |-> NoResult]
  /\ slots = NoCall
  /\ now = 0
  /\ maintenance = [i \in {} |-> BlankMaintenance]
  /\ mh = [p \in Procs |-> NoHandler]

\* Room for one more document.
CanCreate == Cardinality(UsedIds) < MaxBookings

\* Assignments of an update that sets one path.
AssignmentsOfOnePath(d) ==
  {[d EXCEPT !.startTime = s] : s \in Times}
    \cup {[d EXCEPT !.endTime = e] : e \in Times}
    \cup {[d EXCEPT !.status = st] : st \in StatusEnum}

\* Handlers of concurrent requests on one boardroom, an update setting one path.
Next ==
  \E p \in Procs :
    \/ \E f \in CreateInputs({"roomA"}) : CanCreate /\ Create(p, f)
    \/ \E id \in DOMAIN bookings : Load(p, id)
    \/ \E d \in AssignmentsOfOnePath(req[p].doc) : Save(p, d)
    \/ Write(p)

Spec == Init /\ [][Next]_vars

\* One request at a time, on every boardroom.
NextSeq ==
  \E p \in {"h1"} :
    \/ \E f \in CreateInputs(Boardrooms) : CanCreate /\ Create(p, f)
    \/ \E id \in DOMAIN bookings : Load(p, id)
    \/ \E d \in Assignments(req[p].doc) : Save(p, d)
    \/ Write(p)

SpecSeq == Init /\ [][NextSeq]_vars

\* Times of the week of the slot finder's scenarios: Monday 09:00 to 10:30 by
\* half hours, and a booking from Monday 23:00 over midnight to Tuesday 01:00.
At(day, h, m) == day * DayMs + h * HourMs + m * MinuteMs

SlotIntervals ==
  {<<At(0, 9, 0) + a * 30 * MinuteMs, At(0, 9, 0) + b * 30 * MinuteMs>> :
     a \in 0..2, b \in 1..3} \cup {<<At(0, 23, 0), At(1, 1, 0)>>}

\* Creates on roomA in that week, active or cancelled from the start.
SlotCreateInputs ==
  {[BlankBooking EXCEPT !.boardroom = "roomA", !.user = u,
                        !.startTime = iv[1], !.endTime = iv[2],
                        !.attendees = 1, !.status = st] :
     u \in Users, iv \in {x \in SlotIntervals : x[1] < x[2]},
     st \in {NoString, "cancelled"}}

\* The dates asked for: Monday to Thursday of the week, and the Monday
\* written "2024-01-01", which has no comma and names no weekday.
DateInputs ==
  {[instant |-> At(0, 10, 0), head |-> "Monday"],
   [instant |-> At(1, 0, 0), head |-> "tuesday"],
   [instant |-> At(2, 0, 0), head |-> "Wednesday"],
   [instant |-> At(3, 0, 0), head |-> "Thursday"],
   [instant |-> At(0, 0, 0), head |-> "2024-01-01"]}

\* Minutes asked for.
DurationInputs == {-60, 0, 60, 90}

\* Creates and calls of findAvailableSlots, one request at a time.
NextSlots ==
  \/ \E f \in SlotCreateInputs :
       slots.pc = "idle" /\ CanCreate /\ Create("h1", f)
  \/ Write("h1")
  \/ \E room \in Boardrooms \cup {UnknownBoardroom}, date \in DateInputs,
        duration \in DurationInputs :
       pc["h1"] = "idle" /\ FindAvailableSlots(room, date, duration)
  \/ SlotLoop
  \/ SlotsReturn

SpecSlots == Init /\ [][NextSlots]_vars

\* Request bodies of a create with the recurring paths: 09:00-10:00 on one of
\* three days, on a boardroom that is in use, switched off or unknown.
RecurringCreateInputs ==
  {[BlankBooking EXCEPT !.boardroom = b, !.user = u,
                        !.startTime = At(day, 9, 0), !.endTime = At(day, 10, 0),
                        !.attendees = 1, !.isRecurring = r, !.frequency = fr,
                        !.endDate = ed] :
     b \in {"roomA", "roomC", UnknownBoardroom}, u \in Users, day \in 0..2,
     r \in BOOLEAN, fr \in {NoString, "daily"},
     ed \in {NoTime, At(0, 0, 0), At(2, 0, 0)}}

\* Creates, recurring or not, one request at a time.
NextCreate ==
  \/ \E f \in RecurringCreateInputs : CanCreate /\ Create("h1", f)
  \/ Write("h1")

SpecCreate == Init /\ [][NextCreate]_vars

\* The boardroom each handler's requests are for.
RoomOf(p) == IF p = "h1" THEN "roomA" ELSE "roomB"

\* Requests on roomA interleaved with requests on roomB.
NextRooms ==
  \E p \in Procs :
    \/ \E f \in WellFormedCreateInputs({RoomOf(p)}) : CanCreate /\ Create(p, f)
    \/ \E id \in DOMAIN bookings :
         bookings[id].boardroom = RoomOf(p) /\ Load(p, id)
    \/ \E d \in AssignmentsOfOnePath(req[p].doc) : Save(p, d)
    \/ Write(p)

SpecRooms == Init /\ [][NextRooms]_vars

\* Assignments of an update that sets checkIn.time (to the booking's start),
\* checkOut.time (to its end) or status.
VisitAssignments(d) ==
  {[d EXCEPT !.checkInTime = d.startTime], [d EXCEPT !.checkOutTime = d.endTime]}
    \cup {[d EXCEPT !.status = st] : st \in StatusEnum}

\* Creates on roomA and updates of the check-in and check-out paths, one
\* request at a time.
NextVisit ==
  \/ \E f \in WellFormedCreateInputs({"roomA"}) : CanCreate /\ Create("h1", f)
  \/ \E id \in DOMAIN bookings : Load("h1", id)
  \/ \E d \in VisitAssignments(req["h1"].doc) : Save("h1", d)
  \/ Write("h1")

SpecVisit == Init /\ [][NextVisit]_vars

\* Creates on roomA and calls of isActive and isUpcoming as time passes, one
\* request at a time.
NextClock ==
  \/ \E f \in WellFormedCreateInputs({"roomA"}) : CanCreate /\ Create("h1", f)
  \/ Write("h1")
  \/ \E id \in DOMAIN bookings : Load("h1", id)
  \/ CallIsActive("h1")
  \/ CallIsUpcoming("h1")
  \/ Tick

SpecClock == Init /\ [][NextClock]_vars

\* Request bodies of the maintenance routes.
CreateBodies ==
  {[type |-> t, estimatedCompletion |-> e] :
     t \in {"repair", "bogus"}, e \in {NoTime, 1}}

UpdateBodies ==
  {[type |-> t, status |-> st, estimatedCompletion |-> e] :
     t \in {"repair", "bogus"}, st \in MaintenanceStatusEnum \cup {NoString},
     e \in {NoTime, 1}}

AssignBodies ==
  {[assignedTo |-> a, estimatedCompletion |-> e] :
     a \in {"staff1", NoRef}, e \in {NoTime, 1}}

StatusBodies ==
  {[status |-> st, resolution |-> r] :
     st \in MaintenanceStatusEnum, r \in {NoString, "fixed"}}

NoteBodies == {[content |-> c] : c \in {"note", NoString}}

CostBodies == {[amount |-> a] : a \in {NoNumber, 0}}

\* The :id of a request: those that exist and one that may not.
RequestIds == 1..MaxRequests

CanCreateMaintenance == Cardinality(DOMAIN maintenance) < MaxRequests

CanAddNote(id) == id \in DOMAIN maintenance => Len(maintenance[id].notes) < MaxNotes

\* Every maintenance route that writes, one request at a time.
NextMaintSeq ==
  \/ \E body \in CreateBodies : CanCreateMaintenance /\ CreateMaintenance("h1", body)
  \/ \E id \in RequestIds, body \in UpdateBodies : UpdateMaintenance("h1", id, body)
  \/ \E id \in RequestIds : DeleteMaintenance("h1", id)
  \/ \E id \in RequestIds, body \in AssignBodies : AssignMaintenance("h1", id, body)
  \/ \E id \in RequestIds, body \in StatusBodies : UpdateStatus("h1", id, body)
  \/ \E id \in RequestIds, body \in NoteBodies : CanAddNote(id) /\ AddNote("h1", id, body)
  \/ \E id \in RequestIds, body \in CostBodies : UpdateCost("h1", id, body)
  \/ SaveMaintenance("h1")

SpecMaintSeq == Init /\ [][NextMaintSeq]_vars

\* createMaintenance, assignMaintenance and updateStatus only, one request at
\* a time.
NextMaintFlow ==
  \/ \E body \in CreateBodies : CanCreateMaintenance /\ CreateMaintenance("h1", body)
  \/ \E id \in RequestIds, body \in AssignBodies : AssignMaintenance("h1", id, body)
  \/ \E id \in RequestIds, body \in StatusBodies : UpdateStatus("h1", id, body)
  \/ SaveMaintenance("h1")
  \/ Tick

SpecMaintFlow == Init /\ [][NextMaintFlow]_vars

\* The save()-based routes of concurrent requests, interleaved at the awaits.
NextMaint ==
  \E p \in Procs :
    \/ \E body \in CreateBodies : CanCreateMaintenance /\ CreateMaintenance(p, body)
    \/ \E id \in RequestIds : DeleteMaintenance(p, id)
    \/ \E id \in RequestIds, body \in AssignBodies : AssignMaintenance(p, id, body)
    \/ \E id \in RequestIds, body \in StatusBodies : UpdateStatus(p, id, body)
    \/ SaveMaintenance(p)

SpecMaint == Init /\ [][NextMaint]_vars

---------------------------------------------------------------------------
(* Properties *)

Active(b) == b.status \in {"pending", "confirmed"}

\* Half-open intervals [startTime, endTime) share at least one time unit.
Intersects(a, b) == a.startTime < b.endTime /\ a.endTime > b.startTime

\* A document that passes schema validation and spans a real interval.
WellFormed(d) == ValidateSchema(d) /\ d.endTime > d.startTime

\* Stored active bookings of d's boardroom, other than `id`, that intersect d.
Conflicts(d, id) ==
  {i \in DOMAIN bookings \ {id} :
     /\ bookings[i].boardroom = d.boardroom
     /\ Active(bookings[i])
     /\ Intersects(bookings[i], d)}

\* The save is refused with `error` and nothing is written.
Refused(p, error) ==
  /\ result'[p].outcome = error
  /\ pc'[p] = "idle"
  /\ bookings' = bookings

\* The create of d has passed every hook and its insert is issued.
CreateAccepted(p, d) ==
  /\ pc'[p] = "write"
  /\ req'[p].isNew
  /\ req'[p].doc = d

\* An issued insert stores the document as constructed and reports success.
InsertStores(p) ==
  (Write(p) /\ req[p].isNew) =>
     /\ req[p].id \in DOMAIN bookings'
     /\ bookings'[req[p].id] = req[p].doc
     /\ result'[p] = [op |-> "create", id |-> req[p].id, outcome |-> "ok"]

\* C1: for every boardroom, any two distinct bookings whose status is pending
\* or confirmed have non-overlapping half-open intervals, after any sequence
\* of creates, updates and cancellations.
C1_ActiveBookingsDisjoint ==
  \A i \in DOMAIN bookings : \A j \in DOMAIN bookings :
    (i # j /\ bookings[i].boardroom = bookings[j].boardroom
       /\ Active(bookings[i]) /\ Active(bookings[j]))
      => ~Intersects(bookings[i], bookings[j])

\* C2: of two creation requests for one boardroom with overlapping intervals
\* that run concurrently, at most one succeeds.
C2_AtMostOneOverlappingCreateSucceeds ==
  \A p \in Procs : \A q \in Procs \ {p} :
    ~ /\ result[p].op = "create" /\ result[p].outcome = "ok"
      /\ result[q].op = "create" /\ result[q].outcome = "ok"
      /\ result[p].id \in DOMAIN bookings
      /\ result[q].id \in DOMAIN bookings
      /\ result[p].id # result[q].id
      /\ bookings[result[p].id].boardroom = bookings[result[q].id].boardroom
      /\ Active(bookings[result[p].id])
      /\ Active(bookings[result[q].id])
      /\ Intersects(bookings[result[p].id], bookings[result[q].id])

\* C3: a create whose interval intersects a stored pending or confirmed
\* booking of the same boardroom fails with the overlap error, and the new
\* booking is not persisted.
C3_OverlappingCreateRefused ==
  [][\A p \in Procs :
       (pc[p] = "idle" /\ pc'[p] # "loaded") =>
         \A f \in WellFormedCreateInputs(Boardrooms) :
           (WellFormed(ApplyDefaults(f)) /\ Conflicts(f, 0) # {} /\ Create(p, f))
             => Refused(p, "Overlap")]_vars

C3_Witness ==
  \E p \in Procs :
    /\ result[p].op = "create"
    /\ result[p].outcome = "Overlap"
    /\ \E i \in DOMAIN bookings : Active(bookings[i])

\* A stored active booking of f's boardroom ends where f starts, or starts
\* where f ends.
Abuts(f) ==
  \E i \in DOMAIN bookings :
    /\ bookings[i].boardroom = f.boardroom
    /\ Active(bookings[i])
    /\ (bookings[i].endTime = f.startTime \/ bookings[i].startTime = f.endTime)

\* C4: a create whose startTime equals the endTime of a stored active booking
\* of the same boardroom (or whose endTime equals its startTime), and that
\* intersects no active booking of the boardroom, succeeds.
C4_AbuttingCreateSucceeds ==
  [][\A p \in Procs :
       /\ (pc[p] = "idle" /\ pc'[p] # "loaded") =>
            \A f \in WellFormedCreateInputs(Boardrooms) :
              (WellFormed(ApplyDefaults(f)) /\ Conflicts(f, 0) = {} /\ Abuts(f)
                 /\ Create(p, f))
                => CreateAccepted(p, ApplyDefaults(f))
       /\ InsertStores(p)]_vars

C4_Witness ==
  \E p \in Procs :
    /\ result[p].op = "create"
    /\ result[p].outcome = "ok"
    /\ result[p].id \in DOMAIN bookings
    /\ \E j \in DOMAIN bookings \ {result[p].id} :
         /\ bookings[j].boardroom = bookings[result[p].id].boardroom
         /\ Active(bookings[j])
         /\ bookings[j].endTime = bookings[result[p].id].startTime

\* A stored cancelled booking of f's boardroom has exactly f's interval.
OnCancelledSlot(f) ==
  \E i \in DOMAIN bookings :
    /\ bookings[i].boardroom = f.boardroom
    /\ bookings[i].status = "cancelled"
    /\ bookings[i].startTime = f.startTime
    /\ bookings[i].endTime = f.endTime

\* C5: a cancelled booking is ignored by the overlap check: a create on its
\* boardroom for exactly its interval succeeds when no pending or confirmed
\* booking intersects that interval.
C5_CancelledSlotCanBeBookedAgain ==
  [][\A p \in Procs :
       /\ (pc[p] = "idle" /\ pc'[p] # "loaded") =>
            \A f \in WellFormedCreateInputs(Boardrooms) :
              (WellFormed(ApplyDefaults(f)) /\ Conflicts(f, 0) = {}
                 /\ OnCancelledSlot(f) /\ Create(p, f))
                => CreateAccepted(p, ApplyDefaults(f))
       /\ InsertStores(p)]_vars

C5_Witness ==
  \E p \in Procs :
    /\ result[p].op = "create"
    /\ result[p].outcome = "ok"
    /\ result[p].id \in DOMAIN bookings
    /\ Active(bookings[result[p].id])
    /\ \E j \in DOMAIN bookings \ {result[p].id} :
         /\ bookings[j].boardroom = bookings[result[p].id].boardroom
         /\ bookings[j].status = "cancelled"
         /\ bookings[j].startTime = bookings[result[p].id].startTime
         /\ bookings[j].endTime = bookings[result[p].id].endTime

\* C6: a save that modifies startTime or endTime of a stored booking checks
\* the new interval against the other pending or confirmed bookings of the
\* boardroom and never against the booking itself: it is accepted when none
\* of the others intersects it (its own previous interval may), and refused
\* with the overlap error when one does.
C6_UpdateCheckedAgainstOthersOnly ==
  [][\A p \in Procs :
       pc[p] = "loaded" =>
         \A d \in Assignments(req[p].doc) :
           (WellFormed(d)
              /\ (d.startTime # req[p].doc.startTime
                    \/ d.endTime # req[p].doc.endTime)
              /\ Save(p, d))
             => IF Conflicts(d, req[p].id) = {}
                THEN /\ pc'[p] = "write"
                     /\ ~req'[p].isNew
                     /\ req'[p].id = req[p].id
                     /\ SetPaths(req[p].doc, req'[p].doc, req'[p].modified) = d
                ELSE Refused(p, "Overlap")]_vars

\* The save of a moved booking is accepted while the stored booking, still at
\* its previous interval and active, intersects the new interval.
C6_Witness ==
  \E p \in Procs :
    /\ pc[p] = "write"
    /\ ~req[p].isNew
    /\ req[p].modified \cap {"startTime", "endTime"} # {}
    /\ Active(bookings[req[p].id])
    /\ Intersects(bookings[req[p].id],
                  SetPaths(bookings[req[p].id], req[p].doc, req[p].modified))

\* C7: every persisted booking satisfies endTime > startTime.
C7_EndAfterStart ==
  \A i \in DOMAIN bookings : bookings[i].endTime > bookings[i].startTime

\* The transition table of the booking lifecycle.
TransitionTable ==
  {<<"pending", "confirmed">>, <<"pending", "cancelled">>,
   <<"confirmed", "completed">>, <<"confirmed", "cancelled">>}

\* C8: the status of a stored booking changes only along the transition table
\* pending->confirmed, pending->cancelled, confirmed->completed,
\* confirmed->cancelled.
C8_StatusFollowsTable ==
  [][\A i \in DOMAIN bookings :
       bookings'[i].status # bookings[i].status
         => <<bookings[i].status, bookings'[i].status>> \in TransitionTable]_vars

\* C9: cancelled and completed are terminal: once a booking has one of them,
\* no later operation changes its status.
C9_TerminalStatusKept ==
  [][\A i \in DOMAIN bookings :
       bookings[i].status \in {"cancelled", "completed"}
         => bookings'[i].status = bookings[i].status]_vars

\* C10: a cancelled booking has cancelledBy and cancellationTime recorded, and
\* a booking that is not cancelled has none of cancelledBy, cancellationTime
\* and cancellationReason set.
C10_CancellationRecorded ==
  \A i \in DOMAIN bookings :
    IF bookings[i].status = "cancelled"
    THEN bookings[i].cancelledBy # NoRef /\ bookings[i].cancellationTime # NoTime
    ELSE /\ bookings[i].cancelledBy = NoRef
         /\ bookings[i].cancellationTime = NoTime
         /\ bookings[i].cancellationReason = NoString

\* C11: every booking enters the store with status pending, whatever the
\* caller supplied.
C11_CreatedAsPending ==
  [][\A i \in DOMAIN bookings' \ DOMAIN bookings :
       bookings'[i].status = "pending"]_vars

\* A save of document d, new or loaded with `modified`, whose validation
\* fails or one of whose hooks signals an error.
Defective(d, id, isNew, modified) ==
  \/ ~ValidateSchema(d)
  \/ d.endTime <= d.startTime
  \/ (isNew \/ modified \cap {"startTime", "endTime"} # {}) /\ Conflicts(d, id) # {}

ErrorOutcomes == {"ValidationError", "EndBeforeStart", "Overlap"}

\* The save fails and leaves no write behind.
FailsCleanly(p) ==
  /\ result'[p].outcome \in ErrorOutcomes
  /\ pc'[p] = "idle"
  /\ req'[p] = NoReq
  /\ bookings' = bookings

\* Only handler p moves in the step.
OthersStay(p) == \A q \in Procs \ {p} : pc'[q] = pc[q] /\ result'[q] = result[q]

\* C12: a booking operation that fails (schema validation, invalid interval,
\* overlap) leaves the persisted bookings exactly as they were: the failing
\* hook stops the save and no write is issued after the error.
C12_FailedSaveWritesNothing ==
  [][\A p \in Procs :
       /\ (pc[p] = "idle" /\ pc'[p] # "loaded" /\ OthersStay(p)) =>
            \A f \in CreateInputs(Boardrooms) :
              (Defective(ApplyDefaults(f), 0, TRUE, {}) /\ Create(p, f))
                => FailsCleanly(p)
       /\ (pc[p] = "loaded" /\ OthersStay(p)) =>
            \A d \in Assignments(req[p].doc) :
              (Defective(d, req[p].id, FALSE, ModifiedPaths(req[p].doc, d))
                 /\ Save(p, d))
                => FailsCleanly(p)]_vars

\* A save has failed while bookings are stored.
C12_Witness ==
  \E p \in Procs :
    /\ result[p].outcome \in ErrorOutcomes
    /\ pc[p] = "idle"
    /\ DOMAIN bookings # {}

CancelPaths == {"status", "cancellationReason", "cancelledBy", "cancellationTime"}

SlotPaths == {"boardroom", "user", "startTime", "endTime"}

\* C19: no booking is ever removed from the collection, the set of stored
\* _ids only grows; a save that cancels (it modifies status and the
\* cancellation paths only) leaves boardroom, user, startTime and endTime of
\* the stored booking as they were.
C19_NeverRemovedCancelKeepsSlot ==
  [][/\ DOMAIN bookings \subseteq DOMAIN bookings'
     /\ \A p \in Procs :
          (/\ pc[p] = "write"
           /\ ~req[p].isNew
           /\ req[p].modified \subseteq CancelPaths
           /\ Write(p))
            => \A f \in SlotPaths :
                 bookings'[req[p].id][f] = bookings[req[p].id][f]]_vars

\* A stored booking has just been cancelled by an update, next to another one.
C19_Witness ==
  \E p \in Procs :
    /\ result[p].op = "update"
    /\ result[p].outcome = "ok"
    /\ pc[p] = "idle"
    /\ result[p].id \in DOMAIN bookings
    /\ bookings[result[p].id].status = "cancelled"
    /\ WellFormed(bookings[result[p].id])
    /\ Cardinality(DOMAIN bookings) = MaxBookings

\* The occurrences of a daily recurring booking: the base interval on every
\* calendar day from the day of startTime through the day of endDate.
Occurrences(f) ==
  {[f EXCEPT !.startTime = f.startTime + k * DayMs,
             !.endTime = f.endTime + k * DayMs] :
     k \in 0..((f.endDate \div DayMs) - (f.startTime \div DayMs))}

\* C13: a create of a recurring booking is refused with the overlap error
\* when any of its occurrences intersects an active booking of the boardroom.
C13_ConflictingOccurrenceRefused ==
  [][\A p \in Procs :
       (pc[p] = "idle" /\ OthersStay(p)) =>
         \A f \in RecurringCreateInputs :
           (/\ f.isRecurring
            /\ f.frequency = "daily"
            /\ WellFormed(ApplyDefaults(f))
            /\ \E o \in Occurrences(f) : Conflicts(o, 0) # {}
            /\ Create(p, f))
             => Refused(p, "Overlap")]_vars

\* C20: every stored booking is for a boardroom that exists and is active.
C20_BookedBoardroomExistsAndIsActive ==
  \A i \in DOMAIN bookings :
    /\ bookings[i].boardroom \in DOMAIN BoardroomCatalog
    /\ BoardroomCatalog[bookings[i].boardroom].isActive

\* A slot as an interval of the boardroom of the call.
Taken(slot, b) == b.startTime < slot.endTime /\ b.endTime > slot.startTime

ActiveBookingsOf(room) ==
  {i \in DOMAIN bookings : bookings[i].boardroom = room /\ Active(bookings[i])}

\* C14: no slot that findAvailableSlots returns intersects a pending or
\* confirmed booking of the boardroom, whether or not the booking lies
\* wholly within the day.
C14_ReturnedSlotsAreFree ==
  slots.pc = "done" =>
    \A k \in DOMAIN slots.availableSlots, i \in ActiveBookingsOf(slots.room) :
      ~Taken(slots.availableSlots[k], bookings[i])

\* C15: for a positive duration and fetched bookings that end after they
\* start, a pass of the loop at candidate t adds the slot [t, t+duration)
\* exactly when t+duration <= close and no fetched booking b has
\* b.startTime < t+duration and b.endTime > t; otherwise it adds nothing.
C15_SlotIncludedIffHalfOpenFree ==
  [][(/\ slots.pc = "loop"
      /\ slots.duration > 0
      /\ \A k \in DOMAIN slots.fetched :
           slots.fetched[k].endTime > slots.fetched[k].startTime
      /\ SlotLoop) =>
       LET t == slots.currentTime
           slot == [startTime |-> t, endTime |-> t + slots.duration * MinuteMs]
           included ==
             /\ slot.endTime <= slots.closeTime
             /\ \A k \in DOMAIN slots.fetched : ~Taken(slot, slots.fetched[k])
       IN slots'.availableSlots =
            IF included THEN Append(slots.availableSlots, slot)
                        ELSE slots.availableSlots]_vars

\* A call on roomA's Monday has returned one of the two hour slots, the other
\* being taken by a fetched booking.
C15_Witness ==
  /\ slots.pc = "done"
  /\ slots.room = "roomA"
  /\ slots.date.head = "Monday"
  /\ slots.duration = 60
  /\ Len(slots.fetched) >= 1
  /\ Len(slots.availableSlots) = 1

\* open, open + duration, ... : the slots of `minutes` that fit before close.
Tiling(open, close, minutes) ==
  LET n == IF close > open THEN (close - open) \div (minutes * MinuteMs) ELSE 0
  IN [k \in 1..n |-> [startTime |-> open + (k - 1) * minutes * MinuteMs,
                      endTime |-> open + k * minutes * MinuteMs]]

\* C16: a pass of the loop that goes on moves the candidate by duration; with
\* no active booking of the boardroom and a positive duration, the call
\* returns, in order, exactly the slots [open + k*duration,
\* open + (k+1)*duration) that end by close.
C16_NoBookingsGiveTheTiling ==
  [][/\ (slots.pc = "loop" /\ slots'.pc = "loop") =>
          slots'.currentTime = slots.currentTime + slots.duration * MinuteMs
     /\ (/\ slots.pc = "loop"
         /\ slots'.pc = "done"
         /\ slots.duration > 0
         /\ ActiveBookingsOf(slots.room) = {}) =>
          LET hours ==
                BoardroomCatalog[slots.room].operatingHours[ToLowerCase(slots.date.head)]
          IN slots'.availableSlots =
               Tiling(TimeOfDay(slots.date, hours.open),
                      TimeOfDay(slots.date, hours.close), slots.duration)]_vars

\* 09:00-17:00 by 60 minutes has given eight slots.
C16_Witness ==
  /\ slots.pc = "done"
  /\ slots.room = "roomB"
  /\ slots.date.head = "Monday"
  /\ slots.duration = 60
  /\ Len(slots.availableSlots) = 8
  /\ slots.availableSlots[8].endTime = At(0, 17, 0)

\* C17: a call of findAvailableSlots comes to an end: every pass of the loop
\* that does not leave it moves currentTime forward, towards closeTime.
C17_EveryPassMovesForward ==
  [][(slots.pc = "loop" /\ slots'.pc = "loop") =>
       slots'.currentTime > slots.currentTime]_vars

\* The hours of the weekday of `date` are absent, or lack open or close.
HoursMissing(room, date) ==
  LET day == ToLowerCase(date.head) IN
  \/ day \notin Weekdays
  \/ BoardroomCatalog[room].operatingHours[day].open = NoTime
  \/ BoardroomCatalog[room].operatingHours[day].close = NoTime

\* C18: a call for an unknown boardroom fails with the not-found error, and a
\* call for a boardroom whose hours of the weekday are absent or lack open or
\* close fails with the not-operational error; neither yields a slot,
\* whatever bookings are stored.
C18_UnknownOrClosedYieldsNoSlot ==
  slots.pc # "idle" =>
    /\ slots.room \notin DOMAIN BoardroomCatalog =>
         /\ slots.pc = "failed"
         /\ slots.error = "BoardroomNotFound"
         /\ slots.availableSlots = <<>>
    /\ (slots.room \in DOMAIN BoardroomCatalog /\ HoursMissing(slots.room, slots.date)) =>
         /\ slots.pc = "failed"
         /\ slots.error = "NotOperational"
         /\ slots.availableSlots = <<>>

\* A call on a day without hours has failed while the boardroom has an active
\* booking.
C18_Witness ==
  /\ slots.pc = "failed"
  /\ slots.error = "NotOperational"
  /\ slots.room \in DOMAIN BoardroomCatalog
  /\ ActiveBookingsOf(slots.room) # {}

\* C21: in every stored booking recurring.frequency and recurring.endDate are
\* present exactly when recurring.isRecurring is true.
C21_RecurringPathsIffRecurring ==
  \A i \in DOMAIN bookings :
    /\ bookings[i].frequency # NoString <=> bookings[i].isRecurring
    /\ bookings[i].endDate # NoTime <=> bookings[i].isRecurring

\* C27: a save of a loaded booking that leaves startTime and endTime as
\* loaded is never refused with the overlap error, whatever it does to the
\* status and whatever is stored; it goes on to its write when the document
\* is well formed.  A save that modifies startTime or endTime is refused
\* with the overlap error when another active booking of the boardroom
\* intersects the new interval.
C27_OverlapCheckedOnlyWhenIntervalChanges ==
  [][\A p \in Procs :
       (pc[p] = "loaded" /\ OthersStay(p)) =>
         \A d \in Assignments(req[p].doc) :
           Save(p, d) =>
             IF d.startTime = req[p].doc.startTime /\ d.endTime = req[p].doc.endTime
             THEN /\ result'[p].outcome # "Overlap"
                  /\ WellFormed(d) => pc'[p] = "write"
             ELSE (WellFormed(d) /\ Conflicts(d, req[p].id) # {})
                    => Refused(p, "Overlap")]_vars

\* An update that left the interval alone has been written, and the booking
\* it revived intersects another active booking of the boardroom.
C27_Witness ==
  \E p \in Procs :
    /\ result[p].op = "update"
    /\ result[p].outcome = "ok"
    /\ pc[p] = "idle"
    /\ result[p].id \in DOMAIN bookings
    /\ Active(bookings[result[p].id])
    /\ Conflicts(bookings[result[p].id], result[p].id) # {}

\* The boardroom of the booking that handler p is about to write.
TargetRoom(p) ==
  IF req[p].isNew THEN req[p].doc.boardroom ELSE bookings[req[p].id].boardroom

\* C22: a create or an update is refused with the overlap error only when an
\* active booking of its own boardroom intersects it, never because of a
\* booking of another boardroom; and a write for one boardroom leaves the
\* bookings of every other boardroom as they were, however the requests on
\* the two boardrooms interleave.
C22_OverlapScopedToBoardroom ==
  [][\A p \in Procs :
       /\ (pc[p] = "idle" /\ pc'[p] # "loaded" /\ OthersStay(p)) =>
            \A f \in WellFormedCreateInputs(Boardrooms) :
              (Create(p, f) /\ result'[p].outcome = "Overlap")
                => Conflicts(f, 0) # {}
       /\ (pc[p] = "loaded" /\ OthersStay(p)) =>
            \A d \in AssignmentsOfOnePath(req[p].doc) :
              (Save(p, d) /\ result'[p].outcome = "Overlap")
                => Conflicts(d, req[p].id) # {}
       /\ (pc[p] = "write" /\ Write(p)) =>
            \A i \in DOMAIN bookings :
              bookings[i].boardroom # TargetRoom(p) => bookings'[i] = bookings[i]]_vars

\* A create has been written whose interval intersects an active booking of
\* the other boardroom.
C22_Witness ==
  \E p \in Procs :
    /\ result[p].op = "create"
    /\ result[p].outcome = "ok"
    /\ result[p].id \in DOMAIN bookings
    /\ Active(bookings[result[p].id])
    /\ \E j \in DOMAIN bookings :
         /\ bookings[j].boardroom # bookings[result[p].id].boardroom
         /\ Active(bookings[j])
         /\ Intersects(bookings[j], bookings[result[p].id])

\* C23: a stored booking with checkIn.time set has status confirmed or
\* completed: a check-in is recorded only on a confirmed booking.
C23_CheckInOnlyWhenConfirmed ==
  \A i \in DOMAIN bookings :
    bookings[i].checkInTime # NoTime =>
      bookings[i].status \in {"confirmed", "completed"}

\* C24: a stored booking with checkOut.time set has checkIn.time set: a
\* check-out is recorded only after a check-in.
C24_CheckOutOnlyAfterCheckIn ==
  \A i \in DOMAIN bookings :
    bookings[i].checkOutTime # NoTime => bookings[i].checkInTime # NoTime

\* C25: isActive() answers true exactly when the status is confirmed and
\* startTime <= now <= endTime, both edges included; it answers false for a
\* pending, cancelled or completed booking at every time.
C25_IsActiveIffConfirmedAndWithin ==
  [][\A p \in Procs :
       (pc[p] = "loaded" /\ CallIsActive(p)) =>
         LET b == req[p].doc IN
         /\ result'[p].outcome \in {"true", "false"}
         /\ result'[p].outcome = "true" <=>
              (b.status = "confirmed" /\ b.startTime <= now /\ now <= b.endTime)
         /\ b.status \in {"pending", "cancelled", "completed"} =>
              result'[p].outcome = "false"]_vars

\* isActive() has answered true at the very end of a confirmed booking.
C25_Witness ==
  \E p \in Procs :
    /\ result[p].op = "isActive"
    /\ result[p].outcome = "true"
    /\ result[p].id \in DOMAIN bookings
    /\ bookings[result[p].id].status = "confirmed"
    /\ bookings[result[p].id].endTime = now
    /\ bookings[result[p].id].startTime < now

\* C26: isUpcoming() answers true exactly when the status is confirmed and
\* startTime > now; isActive and isUpcoming are never both true of the same
\* booking at the same instant.
C26_IsUpcomingIffConfirmedAndAhead ==
  [][\A p \in Procs :
       (pc[p] = "loaded" /\ CallIsUpcoming(p)) =>
         LET b == req[p].doc IN
         /\ result'[p].outcome \in {"true", "false"}
         /\ result'[p].outcome = "true" <=>
              (b.status = "confirmed" /\ b.startTime > now)
         /\ ~(result'[p].outcome = "true" /\ IsActive(b, now))]_vars

\* isUpcoming() has answered false at the very start of a confirmed booking.
C26_Witness ==
  \E p \in Procs :
    /\ result[p].op = "isUpcoming"
    /\ result[p].outcome = "false"
    /\ result[p].id \in DOMAIN bookings
    /\ bookings[result[p].id].status = "confirmed"
    /\ bookings[result[p].id].startTime = now
    /\ now > 0

\* The status changes a maintenance request may make.
MaintenanceTable ==
  {<<"pending", "assigned">>, <<"assigned", "in_progress">>,
   <<"in_progress", "completed">>, <<"pending", "cancelled">>,
   <<"assigned", "cancelled">>, <<"in_progress", "cancelled">>}

\* C28: whichever maintenance operation writes, the status of a stored
\* request changes only along pending -> assigned -> in_progress -> completed
\* or from one of the first three to cancelled; completed and cancelled are
\* never left.
C28_MaintenanceStatusFollowsTable ==
  [][\A i \in DOMAIN maintenance :
       maintenance'[i].status # maintenance[i].status =>
         <<maintenance[i].status, maintenance'[i].status>> \in MaintenanceTable]_vars

\* C29: a stored maintenance request whose status is assigned, in_progress
\* or completed has assignedTo and assignedAt set.
C29_AssignedHasAssignee ==
  \A i \in DOMAIN maintenance :
    maintenance[i].status \in {"assigned", "in_progress", "completed"} =>
      /\ maintenance[i].assignedTo # NoRef
      /\ maintenance[i].assignedAt # NoTime

\* C30: deleteMaintenance removes no request; when it writes, the stored
\* request is pending or cancelled and the write sets isActive to false and
\* changes nothing else; when it refuses, nothing changes.
C30_DeleteOnlyDeactivatesPendingOrCancelled ==
  [][\A p \in Procs :
       /\ DOMAIN maintenance \subseteq DOMAIN maintenance'
       /\ (mh[p].pc = "save" /\ mh[p].op = "delete" /\ SaveMaintenance(p)) =>
            /\ maintenance[mh[p].id].status \in {"pending", "cancelled"}
            /\ maintenance' =
                 [maintenance EXCEPT ![mh[p].id] = [@ EXCEPT !.isActive = FALSE]]
       /\ (/\ mh[p].pc = "idle"
           /\ mh'[p].op = "delete"
           /\ mh'[p].pc = "idle"
           /\ \A q \in Procs \ {p} : mh'[q] = mh[q]) =>
            maintenance' = maintenance]_vars

====
